---- MODULE Spec2Model ----
(***************************************************************************)
(* Superstore sales dashboard (src/sales.py).                              *)
(*                                                                         *)
(* The script runs top to bottom once: read the CSV, drop rows with a      *)
(* missing value, derive Year/Month, aggregate Sales per (Year, Month),    *)
(* decompose the monthly series (additive, period 12), build the figures,  *)
(* assemble the layout and, when run as a program, start the server, which *)
(* then answers page requests from the layout.                             *)
(*                                                                         *)
(* Conventions of the model                                                *)
(*  - a DataFrame is the sequence of its rows, in positional order;        *)
(*  - a Series that carries index labels the script later relies on (the   *)
(*    decomposition components) is a sequence of [idx, nan, v] entries;    *)
(*  - Sales are integers (an amount in cents); the components of the       *)
(*    decomposition are exact rationals held as integers in units of       *)
(*    1/unit of a cent, so the arithmetic is exact: binary floating-point  *)
(*    rounding is not part of the model;                                   *)
(*  - a name (product, category, region) is a natural number: names only   *)
(*    need an order.                                                       *)
(***************************************************************************)
EXTENDS Integers, Sequences, FiniteSets, TLC

\* ---------------------------------------------------------------- constants
\* seasonal_decompose(..., period=12)
Period == 12
\* .head(10)
TopN == 10

\* ------------------------------------------------------------------- bounds
\* longest run of consecutive months in a generated file
MaxMonths == 25
\* longest freely chosen file
MaxRows == 2
\* most distinct products in a generated file
MaxProducts == 11
\* page requests answered before the model stops counting
MaxRequests == 2

VARIABLES
  file,              \* the CSV on disk (input)
  pc,                \* position of the script
  error,             \* the uncaught exception that ended the run, or "none"
  df,                \* the record set (lines 9-14)
  df_monthly_sales,  \* the monthly aggregate (lines 17-18)
  decomposition,     \* result of seasonal_decompose (line 21)
  trend, seasonal, residual,   \* the components after dropna (lines 24-26)
  top_products,      \* line 52
  figs,              \* the figures, by variable name
  layout,            \* app.layout: rows of graphs
  served,            \* page requests answered so far
  response           \* the page given to the last request

vars == <<file, pc, error, df, df_monthly_sales, decomposition, trend, seasonal,
          residual, top_products, figs, layout, served, response>>

\* ------------------------------------------------------------------ helpers
RECURSIVE SumOver(_, _)
\* sum of f[i] for i in 1..n of a sequence of integers
SumOver(s, n) == IF n = 0 THEN 0 ELSE s[n] + SumOver(s, n - 1)

SeqSum(s) == SumOver(s, Len(s))

Column(frame, c) == [k \in 1..Len(frame) |-> frame[k][c]]

Range(s) == {s[k] : k \in 1..Len(s)}

\* ------------------------------------------------------------------- inputs
Date(y, m, d) == [year |-> y, month |-> m, day |-> d]

\* Category, sub-category and region names are naturals as well.
CategoryOf(p) == 1 + (p % 2)

SubCategoryOf(p) == 1 + (p % 4)

RegionOf(y) == 1 + (y % 2)

\* One line of the CSV.  missing names the column that is empty on that
\* line, or "none"; the other fields are the values the line gives.
Row(date, p, s, miss) ==
  [Order_Date |-> date, Product_Name |-> p, Category |-> CategoryOf(p),
   Sub_Category |-> SubCategoryOf(p),
   Region |-> RegionOf(date.year), Sales |-> s, Profit |-> s \div 5,
   Quantity |-> 1 + (p % 3), missing |-> miss]

\* rows of the freely chosen files: two months across a year boundary
RowSet ==
  { Row(d, p, s, miss) :
      d \in {Date(2014, 12, 15), Date(2015, 1, 3)}, p \in {1, 2},
      s \in {10, 25}, miss \in {"none", "Sales", "Postal_Code"} }

RECURSIVE SeqsUpTo(_, _)
SeqsUpTo(S, n) ==
  IF n = 0 THEN {<<>>}
  ELSE LET shorter == SeqsUpTo(S, n - 1)
       IN  shorter \cup {Append(s, r) : s \in {t \in shorter : Len(t) = n - 1}, r \in S}

\* every file of 1..MaxRows lines over RowSet, in every order (a file with a
\* header and no line is left out: the type pandas gives its date column is
\* not fixed by the script)
SmallFiles == SeqsUpTo(RowSet, MaxRows) \ {<<>>}

\* month i (0-based) of a run of consecutive months starting January 2014
MonthDate(i) == Date(2014 + (i \div 12), 1 + (i % 12), 1 + (i % 28))

Patterns == {"flat", "linear", "seasonal"}

SalesAt(pattern, i) ==
  CASE pattern = "flat" -> 100
    [] pattern = "linear" -> 100 + 10 * i
    [] pattern = "seasonal" -> 100 + 5 * i + (IF (i % 12) \in {10, 11} THEN 60 ELSE 0)

\* a file with one row for each of n consecutive months, ascending or
\* descending, the products cycling through 1..nProd
LongRows(n, order, pattern, nProd) ==
  [k \in 1..n |->
     LET i == IF order = "asc" THEN k - 1 ELSE n - k
     IN  Row(MonthDate(i), 1 + (i % nProd), SalesAt(pattern, i), "none")]

\* one more line put in front of a long file: a second row of an existing
\* month, complete or with an empty column, or a month after a gap
ExtraRows ==
  { <<>>,
    <<Row(Date(2014, 12, 15), 1, 25, "none")>>,
    <<Row(Date(2014, 12, 15), 1, 25, "Postal_Code")>>,
    <<Row(Date(2016, 6, 20), 1, 25, "none")>> }

LongFiles ==
  { x \o LongRows(n, order, pattern, nProd) :
      x \in ExtraRows, n \in 1..MaxMonths, order \in {"asc", "desc"},
      pattern \in Patterns, nProd \in (TopN - 1)..MaxProducts }

\* The file is missing, is not a CSV the parser accepts, has a date column
\* that does not parse (the column then stays text), or is well formed.
Files ==
  { [kind |-> "missing", rows |-> <<>>], [kind |-> "malformed", rows |-> <<>>] }
  \cup { [kind |-> "baddate", rows |-> r] : r \in SmallFiles }
  \cup { [kind |-> "ok", rows |-> r] : r \in SmallFiles \cup LongFiles }

Null == <<>>

\* the value of `decomposition` before line 21 has run
NoResult == [observed |-> <<>>, trend |-> <<>>, seasonal |-> <<>>, resid |-> <<>>,
             unit |-> 1]

Init ==
  /\ file \in Files
  /\ pc = "load"
  /\ error = "none"
  /\ df = Null
  /\ df_monthly_sales = Null
  /\ decomposition = NoResult
  /\ trend = Null /\ seasonal = Null /\ residual = Null
  /\ top_products = Null
  /\ figs = Null
  /\ layout = Null
  /\ served = 0
  /\ response = Null

\* an uncaught exception ends the process
Crash(e) ==
  /\ pc' = "crashed"
  /\ error' = e

\* ------------------------------------------------------ line 9: pd.read_csv
read_csv(f) == f.rows

Load ==
  /\ pc = "load"
  /\ IF file.kind = "missing" THEN Crash("FileNotFoundError") /\ UNCHANGED df
     ELSE IF file.kind = "malformed" THEN Crash("ParserError") /\ UNCHANGED df
     ELSE /\ df' = read_csv(file)
          /\ pc' = "clean"
          /\ UNCHANGED error
  /\ UNCHANGED <<file, df_monthly_sales, decomposition, trend, seasonal, residual,
                 top_products, figs, layout, served, response>>

\* ------------------------------------------------- lines 12-14: dropna, dt
HasNull(r) == r.missing # "none"

\* mutant: dropna(subset=['Sales']), only an empty Sales cell drops the row
dropnaSalesOnly(frame) == SelectSeq(frame, LAMBDA r : r.missing # "Sales")

dropna(frame) == SelectSeq(frame, LAMBDA r : ~HasNull(r))

\* df['Year'], df['Month'] from the order date
WithYearMonth(frame) ==
  [k \in 1..Len(frame) |->
     [c \in DOMAIN frame[k] \cup {"Year", "Month"} |->
        CASE c = "Year" -> frame[k].Order_Date.year
          [] c = "Month" -> frame[k].Order_Date.month
          [] OTHER -> frame[k][c]]]

Clean ==
  /\ pc = "clean"
  /\ IF file.kind = "baddate"
     THEN \* .dt on a column that is not datetime
          /\ df' = dropna(df)
          /\ Crash("AttributeError")
     ELSE /\ df' = WithYearMonth(dropna(df))
          /\ pc' = "aggregate"
          /\ UNCHANGED error
  /\ UNCHANGED <<file, df_monthly_sales, decomposition, trend, seasonal, residual,
                 top_products, figs, layout, served, response>>

\* ------------------------------------------- lines 17-18: groupby, Date
\* the group key of a row: its values in the grouping columns
KeyOf(r, cols) == [j \in 1..Len(cols) |-> r[cols[j]]]

\* mutant: the keys compared from the last column (month before year)
TupleLessLastFirst(a, b) ==
  \E j \in 1..Len(a) : a[j] < b[j] /\ \A i \in (j + 1)..Len(a) : a[i] = b[i]

\* lexicographic order of two keys of the same length
TupleLess(a, b) ==
  \E j \in 1..Len(a) : a[j] < b[j] /\ \A i \in 1..(j - 1) : a[i] = b[i]

RECURSIVE SortKeys(_)
\* the group keys in ascending order (groupby sorts its keys)
SortKeys(S) ==
  IF S = {} THEN <<>>
  ELSE LET least == CHOOSE a \in S : \A b \in S \ {a} : TupleLess(a, b)
       IN  <<least>> \o SortKeys(S \ {least})

\* mutant: .count() in place of .sum()
GroupCount(frame, c, cols, key) ==
  SeqSum([k \in 1..Len(frame) |->
            IF KeyOf(frame[k], cols) = key /\ frame[k].missing # c THEN 1 ELSE 0])

\* .sum() of column c over the rows of a group; an empty cell is skipped
GroupSum(frame, c, cols, key) ==
  SeqSum([k \in 1..Len(frame) |->
            IF KeyOf(frame[k], cols) = key /\ frame[k].missing # c
            THEN frame[k][c] ELSE 0])

\* frame.groupby(cols)[c].sum().reset_index(): one row per key, in key order
GroupBySum(frame, cols, c) ==
  LET keys == SortKeys({KeyOf(frame[k], cols) : k \in 1..Len(frame)})
  IN  [g \in 1..Len(keys) |->
         [f \in Range(cols) \cup {c} |->
            IF f = c THEN GroupSum(frame, c, cols, keys[g])
            ELSE keys[g][CHOOSE j \in 1..Len(cols) : cols[j] = f]]]

\* pd.to_datetime(df_monthly_sales[['Year', 'Month']].assign(DAY=1))
WithDate(frame) ==
  [g \in 1..Len(frame) |->
     [Year |-> frame[g].Year, Month |-> frame[g].Month, Sales |-> frame[g].Sales,
      Date |-> Date(frame[g].Year, frame[g].Month, 1)]]

Aggregate ==
  /\ pc = "aggregate"
  /\ df_monthly_sales' = WithDate(GroupBySum(df, <<"Year", "Month">>, "Sales"))
  /\ pc' = "decompose"
  /\ UNCHANGED <<file, error, df, decomposition, trend, seasonal, residual,
                 top_products, figs, layout, served, response>>

\* --------------------------------------------- line 21: seasonal_decompose
\* Positions are 0-based, as the index labels of the series are.
Half == Period \div 2

\* mutant: one complete cycle is taken to be enough
OneCycle == Period

\* fewest observations seasonal_decompose accepts: two complete cycles
MinObservations == 2 * Period

\* mutant: the window is taken to fit one position later at the head
TrendDefinedLate(i, L) == i > Half /\ i <= L - 1 - Half

\* the centred moving average has a value at i: the filter of Period + 1
\* weights fits inside the series
TrendDefined(i, L) == i >= Half /\ i <= L - 1 - Half

\* 2 * Period times the centred moving average at i:
\* weights 1/2, 1, ..., 1, 1/2 over i - Half .. i + Half, divided by Period
MovingSum2P(x, i) ==
  x[i - Half + 1] + x[i + Half + 1]
  + 2 * SeqSum([j \in 1..(Period - 1) |-> x[i - Half + j + 1]])

\* how many detrended values position p of the cycle has
Count(p, L) == Cardinality({i \in 0..(L - 1) : (i % Period) = p /\ TrendDefined(i, L)})

RECURSIVE GCD(_, _)
GCD(a, b) == IF b = 0 THEN a ELSE GCD(b, a % b)

RECURSIVE LcmUpTo(_)
LcmUpTo(n) == IF n <= 1 THEN 1 ELSE LET m == LcmUpTo(n - 1) IN (m * n) \div GCD(m, n)

\* a common multiple of the group sizes the per-position means divide by
CntLcm(L) == LcmUpTo((L + Period - 1) \div Period)

\* the components are integers in units of 1/Unit(L)
Unit(L) == 2 * Period * Period * CntLcm(L)

\* 2 * Period * CntLcm(L) times the mean of the detrended values at cycle
\* position p (nanmean of x[p::Period] - trend[p::Period])
PeriodAverage(x, p) ==
  LET L == Len(x)
      at == {i \in 0..(L - 1) : (i % Period) = p /\ TrendDefined(i, L)}
      detr == [k \in 1..L |-> IF (k - 1) \in at
                               THEN 2 * Period * x[k] - MovingSum2P(x, k - 1) ELSE 0]
  IN  (SeqSum(detr) * CntLcm(L)) \div Count(p, L)

\* mutant: the seasonal component is not subtracted
ResidNoSeasonal(xU, t, se) == xU - t

\* resid = (x - trend) - seasonal, all in the same unit
Resid(xU, t, se) == (xU - t) - se

seasonal_decompose(x) ==
  LET L == Len(x)
      U == Unit(L)
      \* a cycle position with no detrended value has a NaN mean, and the
      \* mean over the positions is then NaN as well
      allPos == \A p \in 0..(Period - 1) : Count(p, L) > 0
      avg == [q \in 1..Period |-> IF allPos THEN PeriodAverage(x, q - 1) ELSE 0]
      mean == SeqSum(avg)           \* in units of 1/U
      tr == [k \in 1..L |->
               IF TrendDefined(k - 1, L)
               THEN [idx |-> k - 1, nan |-> FALSE,
                     v |-> MovingSum2P(x, k - 1) * Period * CntLcm(L)]
               ELSE [idx |-> k - 1, nan |-> TRUE, v |-> 0]]
      se == [k \in 1..L |->
               IF allPos
               THEN [idx |-> k - 1, nan |-> FALSE,
                     v |-> Period * avg[((k - 1) % Period) + 1] - mean]
               ELSE [idx |-> k - 1, nan |-> TRUE, v |-> 0]]
      re == [k \in 1..L |->
               IF tr[k].nan \/ se[k].nan
               THEN [idx |-> k - 1, nan |-> TRUE, v |-> 0]
               ELSE [idx |-> k - 1, nan |-> FALSE, v |-> Resid(x[k] * U, tr[k].v, se[k].v)]]
  IN  [observed |-> x, trend |-> tr, seasonal |-> se, resid |-> re, unit |-> U]

Decompose ==
  /\ pc = "decompose"
  /\ LET x == Column(df_monthly_sales, "Sales")
     IN  IF Len(x) < MinObservations
         THEN Crash("ValueError") /\ UNCHANGED decomposition
         ELSE /\ decomposition' = seasonal_decompose(x)
              /\ pc' = "components"
              /\ UNCHANGED error
  /\ UNCHANGED <<file, df, df_monthly_sales, trend, seasonal, residual,
                 top_products, figs, layout, served, response>>

\* ------------------------------------------------ lines 24-26: .dropna()
SeriesDropna(series) == SelectSeq(series, LAMBDA e : ~e.nan)

Components ==
  /\ pc = "components"
  /\ trend' = SeriesDropna(decomposition.trend)
  /\ seasonal' = SeriesDropna(decomposition.seasonal)
  /\ residual' = SeriesDropna(decomposition.resid)
  /\ pc' = "charts"
  /\ UNCHANGED <<file, error, df, df_monthly_sales, decomposition,
                 top_products, figs, layout, served, response>>

\* ------------------------------------------------- lines 31-68: the charts
\* the columns a chart reads from its data frame
Project(frame, cols) == [k \in 1..Len(frame) |-> [c \in cols |-> frame[k][c]]]

RECURSIVE InsertAsc(_, _, _, _)
\* mutant: ascending order (ascending=False left out)
InsertAsc(sorted, r, c, tie) ==
  IF sorted = <<>> THEN <<r>>
  ELSE IF Head(sorted)[c] < r[c] \/ (tie = "first" /\ Head(sorted)[c] = r[c])
       THEN <<Head(sorted)>> \o InsertAsc(Tail(sorted), r, c, tie)
       ELSE <<r>> \o sorted

RECURSIVE InsertDesc(_, _, _, _)
\* r put into the rows `sorted` (descending in column c) after every row
\* with a larger value; rows with an equal value keep their order when
\* tie = "first" and are passed when tie = "last"
InsertDesc(sorted, r, c, tie) ==
  IF sorted = <<>> THEN <<r>>
  ELSE IF Head(sorted)[c] > r[c] \/ (tie = "first" /\ Head(sorted)[c] = r[c])
       THEN <<Head(sorted)>> \o InsertDesc(Tail(sorted), r, c, tie)
       ELSE <<r>> \o sorted

RECURSIVE SortDesc(_, _, _)
\* frame.sort_values(by=c, ascending=False); the default sort kind leaves
\* the order of rows with equal values open, tie picks it
SortDesc(frame, c, tie) ==
  IF frame = <<>> THEN <<>>
  ELSE InsertDesc(SortDesc(SubSeq(frame, 1, Len(frame) - 1), c, tie),
                  frame[Len(frame)], c, tie)

\* frame.head(n)
head(frame, n) == SubSeq(frame, 1, IF Len(frame) < n THEN Len(frame) ELSE n)

\* line 52
TopProducts(frame, tie) ==
  head(SortDesc(GroupBySum(frame, <<"Product_Name">>, "Sales"), "Sales", tie), TopN)

NoTrace == [x |-> <<>>, y |-> <<>>]

\* a plotly express figure: the chart kind, its title and the rows it draws
Px(name, kind, title, data) ==
  [name |-> name, kind |-> kind, title |-> title, data |-> data, trace |-> NoTrace]

BuildCharts ==
  /\ pc = "charts"
  /\ \E tie \in {"first", "last"} :
       /\ top_products' = TopProducts(df, tie)
       /\ figs' =
            << Px("fig_category", "bar", "Sales by Category",
                  Project(df, {"Category", "Sales"})),
               Px("fig_region", "bar", "Profit by Region",
                  Project(df, {"Region", "Profit"})),
               Px("fig_trend", "line", "Sales Trend Over Years",
                  GroupBySum(df, <<"Year">>, "Sales")),
               Px("fig_subcategory", "bar", "Sales by Sub-Category",
                  Project(df, {"Sub_Category", "Sales"})),
               Px("fig_profit_sales", "scatter", "Profit vs. Sales",
                  Project(df, {"Sales", "Profit", "Category", "Quantity",
                               "Product_Name"})),
               Px("fig_top_products", "bar", "Top 10 Products by Sales",
                  top_products'),
               Px("fig_quantity_dist", "histogram", "Order Quantity Distribution",
                  Project(df, {"Quantity"})),
               Px("fig_heatmap", "density_heatmap",
                  "Sales Heatmap by Region and Category",
                  GroupBySum(df, <<"Region", "Category">>, "Sales")),
               Px("fig_monthly_trend", "line", "Sales Trend by Month",
                  GroupBySum(df, <<"Year", "Month">>, "Sales")) >>
  /\ pc' = "component_plots"
  /\ UNCHANGED <<file, error, df, df_monthly_sales, decomposition, trend, seasonal,
                 residual, layout, served, response>>

\* --------------------------------------- lines 70-87: the component plots
\* series[k:], a slice by position
PositionalFrom(series, k) == SubSeq(series, k + 1, Len(series))

\* go.Scatter(x=df_monthly_sales['Date'][len(df_monthly_sales)-len(c):], y=c):
\* the two arrays are paired by position; the index labels of c are not used
ComponentTrace(frame, component) ==
  [x |-> PositionalFrom(Column(frame, "Date"), Len(frame) - Len(component)),
   y |-> [k \in 1..Len(component) |-> component[k].v]]

Go(name, title, trace) ==
  [name |-> name, kind |-> "scatter_lines", title |-> title, data |-> <<>>,
   trace |-> trace]

ComponentPlots ==
  /\ pc = "component_plots"
  /\ figs' = figs \o
       << Go("fig_trend_plot", "Trend Component",
             ComponentTrace(df_monthly_sales, trend)),
          Go("fig_seasonal_plot", "Seasonal Component",
             ComponentTrace(df_monthly_sales, seasonal)),
          Go("fig_residual_plot", "Residual Component",
             ComponentTrace(df_monthly_sales, residual)) >>
  /\ pc' = "layout"
  /\ UNCHANGED <<file, error, df, df_monthly_sales, decomposition, trend, seasonal,
                 residual, top_products, layout, served, response>>

\* ------------------------------------------------ lines 89-146: app.layout
Fig(name) == figs[CHOOSE k \in 1..Len(figs) : figs[k].name = name]

\* dcc.Graph(id=..., figure=...)
Graph(id, name) == [id |-> id, figure |-> Fig(name)]

\* the six rows of two graphs under the heading
AppLayout ==
  << << Graph("sales-by-category", "fig_category"),
        Graph("profit-by-region", "fig_region") >>,
     << Graph("sales-trend", "fig_trend"),
        Graph("sales-by-subcategory", "fig_subcategory") >>,
     << Graph("profit-vs-sales", "fig_profit_sales"),
        Graph("top-products", "fig_top_products") >>,
     << Graph("order-quantity-dist", "fig_quantity_dist"),
        Graph("sales-heatmap", "fig_heatmap") >>,
     << Graph("monthly-sales-trend", "fig_monthly_trend"),
        Graph("trend-component", "fig_trend_plot") >>,
     << Graph("seasonality-component", "fig_seasonal_plot"),
        Graph("residual-component", "fig_residual_plot") >> >>

Layout ==
  /\ pc = "layout"
  /\ layout' = AppLayout
  /\ pc' = "main"
  /\ UNCHANGED <<file, error, df, df_monthly_sales, decomposition, trend, seasonal,
                 residual, top_products, figs, served, response>>

\* mutant: the server is started whether or not the script got this far
MainInFinally ==
  /\ pc \in {"main", "crashed"}
  /\ \E isMain \in BOOLEAN : pc' = IF isMain THEN "serving" ELSE "imported"
  /\ UNCHANGED <<file, error, df, df_monthly_sales, decomposition, trend, seasonal,
                 residual, top_products, figs, layout, served, response>>

\* ------------------------------------------- lines 149-150: app.run_server
\* run as a program the script starts the server; imported, it ends here
Main ==
  /\ pc = "main"
  /\ \E isMain \in BOOLEAN : pc' = IF isMain THEN "serving" ELSE "imported"
  /\ UNCHANGED <<file, error, df, df_monthly_sales, decomposition, trend, seasonal,
                 residual, top_products, figs, layout, served, response>>

\* mutant: a request rebuilds the page and loses its last row
ServeRebuilds ==
  /\ pc = "serving"
  /\ served < MaxRequests
  /\ served' = served + 1
  /\ layout' = SubSeq(layout, 1, Len(layout) - 1)
  /\ response' = layout'
  /\ UNCHANGED <<file, pc, error, df, df_monthly_sales, decomposition, trend,
                 seasonal, residual, top_products, figs>>

\* the server answers a page request with the layout; the script registers
\* no callback, so a request runs no code of the script
Serve ==
  /\ pc = "serving"
  /\ served < MaxRequests
  /\ served' = served + 1
  /\ response' = layout
  /\ UNCHANGED <<file, pc, error, df, df_monthly_sales, decomposition, trend,
                 seasonal, residual, top_products, figs, layout>>

Next ==
  \/ Load
  \/ Clean
  \/ Aggregate
  \/ Decompose
  \/ Components
  \/ BuildCharts
  \/ ComponentPlots
  \/ Layout
  \/ Main
  \/ Serve

Spec == Init /\ [][Next]_vars

\* ===================================================================== claims
\* What the file says, stated without the operators of the script.
Rows == file.rows

\* positions of the lines of the file with no empty column
Complete == {k \in 1..Len(Rows) : Rows[k].missing = "none"}

RECURSIVE CompleteUpTo(_)
\* the complete lines among the first n lines of the file, in file order
CompleteUpTo(n) ==
  IF n = 0 THEN <<>>
  ELSE IF Rows[n].missing = "none" THEN Append(CompleteUpTo(n - 1), Rows[n])
       ELSE CompleteUpTo(n - 1)

\* the complete lines of the file, in file order
CompleteLines == CompleteUpTo(Len(Rows))

\* the (year, month) pairs that occur on complete lines
Pairs == {<<Rows[k].Order_Date.year, Rows[k].Order_Date.month>> : k \in Complete}

\* the sum of Sales over the complete lines that satisfy P
SalesWhere(P(_)) ==
  LET lines == Rows
  IN  SeqSum([k \in 1..Len(lines) |->
                IF lines[k].missing = "none" /\ P(lines[k]) THEN lines[k].Sales ELSE 0])

\* positions of the script
AfterClean == {"aggregate", "decompose", "components", "charts", "component_plots",
               "layout", "main", "serving", "imported"}
AfterAggregate == AfterClean \ {"aggregate"}
AfterDecompose == AfterAggregate \ {"decompose"}
AfterComponents == AfterDecompose \ {"components"}
AfterCharts == AfterComponents \ {"charts"}
AfterComponentPlots == AfterCharts \ {"component_plots"}

\* the run got as far as the decomposition: it is past it, or ended in it
Cleaned == pc \in AfterClean \/ (pc = "crashed" /\ error = "ValueError")
Aggregated == pc \in AfterAggregate \/ (pc = "crashed" /\ error = "ValueError")

\* the entry of a component series that carries index label i
At(series, i) == series[CHOOSE k \in 1..Len(series) : series[k].idx = i]

Labels(series) == {series[k].idx : k \in 1..Len(series)}

\* ---------------------------------------------------------------------- C8
\* C8: cleaning drops exactly the lines with an empty column.  Once the
\* record set is cleaned it has as many rows as the file has lines minus
\* the lines with an empty column, none of its rows has an empty column,
\* its j-th row is the j-th complete line of the file with every value
\* unchanged, and the aggregates and charts built later are computed from
\* the complete lines only.
C8_CleaningDropsExactlyNullRows ==
  LET want == CompleteLines
  IN
  /\ Cleaned =>
       /\ Len(df) = Len(Rows) - Cardinality({k \in 1..Len(Rows) : Rows[k].missing # "none"})
       /\ \A j \in 1..Len(df) :
            /\ df[j].missing = "none"
            /\ \A c \in DOMAIN want[j] : df[j][c] = want[j][c]
  /\ Aggregated =>
       \A g \in 1..Len(df_monthly_sales) :
          df_monthly_sales[g].Sales =
            SalesWhere(LAMBDA r : /\ r.Order_Date.year = df_monthly_sales[g].Year
                                  /\ r.Order_Date.month = df_monthly_sales[g].Month)
  /\ pc \in AfterCharts =>
       /\ \A n \in {"fig_category", "fig_region", "fig_subcategory", "fig_profit_sales",
                    "fig_quantity_dist"} :
            LET data == Fig(n).data
            IN  /\ Len(data) = Len(want)
                /\ \A j \in 1..Len(data) :
                     \A c \in DOMAIN data[j] : data[j][c] = want[j][c]
       /\ LET data == Fig("fig_trend").data
          IN  \A j \in 1..Len(data) :
                data[j].Sales = SalesWhere(LAMBDA r : r.Order_Date.year = data[j].Year)
       /\ LET data == Fig("fig_heatmap").data
          IN  \A j \in 1..Len(data) :
                data[j].Sales =
                  SalesWhere(LAMBDA r : /\ r.Region = data[j].Region
                                        /\ r.Category = data[j].Category)
       /\ \A j \in 1..Len(top_products) :
            top_products[j].Sales =
              SalesWhere(LAMBDA r : r.Product_Name = top_products[j].Product_Name)

\* a file with complete lines and a line with an empty column, the charts built
C8_Witness ==
  /\ pc \in AfterCharts
  /\ Complete # {}
  /\ \E k \in 1..Len(Rows) : Rows[k].missing = "Postal_Code"

\* ---------------------------------------------------------------------- C3
\* C3: the monthly aggregate has exactly one row for every (year, month)
\* pair that occurs in the cleaned records and no other row, and its rows
\* are in strictly ascending order of (year, month), whatever the order of
\* the lines of the file.
C3_OneRowPerMonthAscending ==
  Aggregated =>
    /\ {<<df_monthly_sales[g].Year, df_monthly_sales[g].Month>> :
          g \in 1..Len(df_monthly_sales)} = Pairs
    /\ Len(df_monthly_sales) = Cardinality(Pairs)
    /\ \A g \in 1..(Len(df_monthly_sales) - 1) :
         \/ df_monthly_sales[g].Year < df_monthly_sales[g + 1].Year
         \/ /\ df_monthly_sales[g].Year = df_monthly_sales[g + 1].Year
            /\ df_monthly_sales[g].Month < df_monthly_sales[g + 1].Month

\* a file whose lines run backwards in time across a year boundary, with
\* two lines in one month, aggregated
C3_Witness ==
  /\ Aggregated
  /\ \E k \in 1..(Len(Rows) - 1) :
       /\ {k, k + 1} \subseteq Complete
       /\ Rows[k].Order_Date.year > Rows[k + 1].Order_Date.year
       /\ Rows[k].Order_Date.month < Rows[k + 1].Order_Date.month
  /\ Cardinality(Pairs) < Cardinality(Complete)
  /\ Len(df_monthly_sales) >= 2

\* ---------------------------------------------------------------------- C4
\* C4: aggregation conserves sales.  The Sales of the monthly rows add up to
\* the Sales of all cleaned records, and the Sales of each monthly row is
\* the sum of Sales of exactly the records of that year and month.
C4_SalesConserved ==
  Aggregated =>
    /\ SeqSum(Column(df_monthly_sales, "Sales")) = SalesWhere(LAMBDA r : TRUE)
    /\ SeqSum(Column(df_monthly_sales, "Sales")) = SeqSum(Column(df, "Sales"))
    /\ \A g \in 1..Len(df_monthly_sales) :
         df_monthly_sales[g].Sales =
           SalesWhere(LAMBDA r : /\ r.Order_Date.year = df_monthly_sales[g].Year
                                 /\ r.Order_Date.month = df_monthly_sales[g].Month)

\* several months, one of them with two records of different Sales
C4_Witness ==
  /\ Aggregated
  /\ Len(df_monthly_sales) >= 2
  /\ \E i, j \in Complete :
       /\ i # j
       /\ Rows[i].Order_Date.year = Rows[j].Order_Date.year
       /\ Rows[i].Order_Date.month = Rows[j].Order_Date.month
       /\ Rows[i].Sales # Rows[j].Sales

\* ---------------------------------------------------------------------- C2
\* C2: when the cleaned data has fewer than 24 distinct (year, month) pairs
\* the decomposition step ends the run with an error and produces no
\* component; with 24 or more it produces the three components.
C2_NeedsTwoCycles ==
  (pc \in AfterDecompose \/ (pc = "crashed" /\ error = "ValueError")) =>
    /\ Len(df_monthly_sales) = Cardinality(Pairs)
    /\ Cardinality(Pairs) < 24 =>
         /\ pc = "crashed" /\ error = "ValueError"
         /\ decomposition = NoResult
         /\ trend = Null /\ seasonal = Null /\ residual = Null
    /\ Cardinality(Pairs) >= 24 =>
         /\ pc # "crashed" /\ error = "none"
         /\ Len(decomposition.trend) = Cardinality(Pairs)
         /\ Len(decomposition.seasonal) = Cardinality(Pairs)
         /\ Len(decomposition.resid) = Cardinality(Pairs)

\* a file with 23 months, one short of two cycles, ended in the decomposition
C2_Witness ==
  /\ pc = "crashed" /\ error = "ValueError"
  /\ Cardinality(Pairs) = 23

\* ---------------------------------------------------------------------- C5
\* C5: for a monthly series of length L >= 24, after the missing values are
\* dropped the trend and the residual each have L - 12 values, those of the
\* months 6 .. L - 7 (the 6 first and the 6 last months are dropped), and
\* the seasonal component has L values, one for every month.
C5_ComponentLengths ==
  pc \in AfterComponents =>
    LET L == Len(df_monthly_sales)
    IN  /\ L >= 24
        /\ Len(trend) = L - 12 /\ Labels(trend) = 6..(L - 7)
        /\ Len(residual) = L - 12 /\ Labels(residual) = 6..(L - 7)
        /\ Len(seasonal) = L /\ Labels(seasonal) = 0..(L - 1)
        /\ \A k \in 1..(Len(trend) - 1) : trend[k].idx < trend[k + 1].idx
        /\ \A k \in 1..(Len(residual) - 1) : residual[k].idx < residual[k + 1].idx
        /\ \A k \in 1..(Len(seasonal) - 1) : seasonal[k].idx < seasonal[k + 1].idx

\* a series longer than two cycles, its components taken
C5_Witness ==
  /\ pc \in AfterComponents
  /\ Len(df_monthly_sales) = 25
  /\ Len(trend) = 13

\* ---------------------------------------------------------------------- C6
\* C6: at every month i at which trend, seasonal and residual all have a
\* value (6 <= i <= L - 7), trend + seasonal + residual is the monthly
\* Sales of that month (all four in the unit of the components).
C6_AdditiveRoundTrip ==
  pc \in AfterComponents =>
    LET L == Len(df_monthly_sales)
    IN  /\ Labels(trend) \cap Labels(seasonal) \cap Labels(residual) = 6..(L - 7)
        /\ \A i \in 6..(L - 7) :
             At(trend, i).v + At(seasonal, i).v + At(residual, i).v
               = df_monthly_sales[i + 1].Sales * decomposition.unit

\* a series with a seasonal swing and a residual that is not zero
C6_Witness ==
  /\ pc \in AfterComponents
  /\ \E i \in Labels(trend) :
       /\ At(seasonal, i).v # 0
       /\ At(residual, i).v # 0
       /\ At(trend, i).v # df_monthly_sales[i + 1].Sales * decomposition.unit

\* ---------------------------------------------------------------------- C7
\* C7: the top-products aggregate has one row per product, whose Sales is
\* the sum of that product's Sales over the cleaned records; it is in
\* non-increasing order of Sales; it has 10 rows when there are at least 10
\* distinct products and as many rows as products otherwise; and no product
\* left out has a larger sum than a product kept.
C7_TopProducts ==
  pc \in AfterCharts =>
    LET products == {Rows[k].Product_Name : k \in Complete}
        total(p) == SalesWhere(LAMBDA r : r.Product_Name = p)
        kept == {top_products[j].Product_Name : j \in 1..Len(top_products)}
    IN  /\ Len(top_products) = IF Cardinality(products) >= 10 THEN 10
                               ELSE Cardinality(products)
        /\ Cardinality(kept) = Len(top_products)
        /\ kept \subseteq products
        /\ \A j \in 1..Len(top_products) :
             top_products[j].Sales = total(top_products[j].Product_Name)
        /\ \A j \in 1..(Len(top_products) - 1) :
             top_products[j].Sales >= top_products[j + 1].Sales
        /\ \A p \in products \ kept : \A q \in kept : total(p) <= total(q)

\* eleven products with different sums: one is left out, and the order of
\* the rows is not the order of the names
C7_Witness ==
  /\ pc \in AfterCharts
  /\ Cardinality({Rows[k].Product_Name : k \in Complete}) = 11
  /\ Len(top_products) = 10
  /\ top_products[1].Sales > top_products[10].Sales
  /\ \E j \in 1..9 : top_products[j].Product_Name > top_products[j + 1].Product_Name

\* ---------------------------------------------------------------------- C9
\* C9: in each component chart (trend, seasonal, residual) every plotted
\* value computed for the month at index i of the monthly aggregate is
\* paired on the x axis with the Date of row i.
C9_ComponentsAligned ==
  pc \in AfterComponentPlots =>
    /\ \A k \in 1..Len(trend) :
         /\ Fig("fig_trend_plot").trace.y[k] = trend[k].v
         /\ Fig("fig_trend_plot").trace.x[k] = df_monthly_sales[trend[k].idx + 1].Date
    /\ \A k \in 1..Len(seasonal) :
         /\ Fig("fig_seasonal_plot").trace.y[k] = seasonal[k].v
         /\ Fig("fig_seasonal_plot").trace.x[k] = df_monthly_sales[seasonal[k].idx + 1].Date
    /\ \A k \in 1..Len(residual) :
         /\ Fig("fig_residual_plot").trace.y[k] = residual[k].v
         /\ Fig("fig_residual_plot").trace.x[k] = df_monthly_sales[residual[k].idx + 1].Date

\* What the script plots instead: the seasonal values against their own
\* months, the trend and residual values against the month Period / 2 rows
\* later (the slice keeps the last len(component) dates).
ComponentsShiftedByHalfPeriod ==
  pc \in AfterComponentPlots =>
    /\ \A k \in 1..Len(trend) :
         Fig("fig_trend_plot").trace.x[k] = df_monthly_sales[trend[k].idx + 1 + Half].Date
    /\ \A k \in 1..Len(residual) :
         Fig("fig_residual_plot").trace.x[k]
           = df_monthly_sales[residual[k].idx + 1 + Half].Date
    /\ \A k \in 1..Len(seasonal) :
         Fig("fig_seasonal_plot").trace.x[k] = df_monthly_sales[seasonal[k].idx + 1].Date

\* ---------------------------------------------------------------------- C1
\* C1: fail fast at startup.  The server runs, and a page is served, only
\* in a run whose file loaded and parsed, whose cleaned data has the 24
\* months the decomposition needs, and in which cleaning, aggregation,
\* decomposition, the figures and the layout are all complete; a run in
\* which a step failed has ended there, takes no further step and has
\* served nothing.
C1_FailFast ==
  LET good == file.kind = "ok" /\ Cardinality(Pairs) >= 24
  IN  /\ (pc = "serving" \/ served > 0 \/ response # Null) =>
           /\ good
           /\ error = "none"
           /\ Len(df) = Cardinality(Complete)
           /\ Len(df_monthly_sales) = Cardinality(Pairs)
           /\ decomposition.observed = Column(df_monthly_sales, "Sales")
           /\ Len(trend) > 0 /\ Len(seasonal) > 0 /\ Len(residual) > 0
           /\ Len(figs) = 12
           /\ Len(layout) = 6
      /\ ~good => pc \in {"load", "clean", "aggregate", "decompose", "crashed"}
      /\ error # "none" => pc = "crashed"
      /\ pc = "crashed" =>
           /\ error # "none"
           /\ served = 0 /\ response = Null /\ layout = Null
           /\ ~ENABLED Next

\* a well-formed file with too few months: the run ended in the decomposition
C1_Witness ==
  /\ pc = "crashed"
  /\ error = "ValueError"
  /\ file.kind = "ok"
  /\ Cardinality(Pairs) = 23
  /\ served = 0

\* --------------------------------------------------------------------- C10
\* the ids of the graphs of a page, row by row
GraphIds(page) == [r \in 1..Len(page) |-> [g \in 1..Len(page[r]) |-> page[r][g].id]]

\* C10: once the server runs, no step changes the cleaned dataset, the
\* aggregates, the decomposition components, the figures or the layout, and
\* every request is answered with that layout: the same twelve charts in
\* the same six rows of two.
C10_ServingChangesNothing ==
  [][pc = "serving" =>
       /\ UNCHANGED <<df, df_monthly_sales, decomposition, trend, seasonal, residual,
                      top_products, figs, layout>>
       /\ response' = layout
       /\ GraphIds(response') =
            << <<"sales-by-category", "profit-by-region">>,
               <<"sales-trend", "sales-by-subcategory">>,
               <<"profit-vs-sales", "top-products">>,
               <<"order-quantity-dist", "sales-heatmap">>,
               <<"monthly-sales-trend", "trend-component">>,
               <<"seasonality-component", "residual-component">> >>
       /\ \A r \in 1..Len(response') : \A g \in 1..Len(response'[r]) :
            \E k \in 1..Len(figs) : response'[r][g].figure = figs[k]]_vars

\* two requests answered, the second with the page of the first
C10_Witness ==
  /\ pc = "serving"
  /\ served >= 2
  /\ response = layout
  /\ Len(layout) = 6
====
